---- MODULE Spec2Model ----
(***************************************************************************)
(* Model of plugins/modules/compute_labels.py: one run of the module       *)
(* (main) against the remote instance directory and operation service,     *)
(* followed by further runs with the same parameters.                      *)
(*                                                                         *)
(* A label map is a function from a finite set of keys to values, as a     *)
(* Python dict.  A run's position in main is pc; every remote call is one  *)
(* step, so that the remote side (operation completion, another writer)    *)
(* can act between the calls.  fail_json and exit_json end the process     *)
(* (SystemExit is not caught by `except Exception`).                       *)
(***************************************************************************)
EXTENDS Integers, Sequences, FiniteSets, TLC

\* ---------------------------------------------------------------- bounds
MaxPolls == 1        \* rounds of the poll loop with a not-done status that the log keeps
MaxRuns == 2         \* consecutive runs of the module with the same parameters
MaxExtWrites == 1    \* writes to the instance by another client

\* ------------------------------------------------------------ input sets
Keys == {"env", "team"}
Vals == {"prod", "x"}
None == "<None>"                 \* Python None, distinct from every string value
States == {"present", "absent"}
Name == "vm"
FolderId == "folder"
InstanceIds == <<"i1", "i2">>    \* ids of the instances the name filter can match
Errors == {"UNAVAILABLE"}        \* texts of the exceptions a remote call raises
ErrCodes == {3}                  \* codes of a finished operation's embedded error
ErrMessages == {"denied"}

EmptyDict == [k \in {} |-> None]
LabelMaps(V) == UNION {[K -> V] : K \in SUBSET Keys}

VARIABLES
    params,        \* module.params: state, labels
    remote,        \* remote side: instance id -> its label map
    listing,       \* remote side: ids of the instances matching the name filter
    op,            \* remote side: the operation created by the latest update
    extWrites,     \* number of writes by another client so far
    run,           \* number of the current run
    pc,            \* position of the current run in main
    instance,      \* main: instance (dict returned by _find)
    operation,     \* main: operation (dict returned by _update/_delete)
    status,        \* _wait: operation (dict returned by the last status fetch)
    request,       \* the UpdateInstanceRequest sent by this run, if any
    polled,        \* operation id of this run's GetOperationRequest, if any
    calls,         \* remote calls issued by this run, in order
    sleeps,        \* sleep(1) calls of this run
    polls,         \* not-done statuses in the log of this run
    result,        \* payload this run exited with
    previous,      \* payload the previous run exited with, without its msg
    lookup,        \* what _find returned to this run, before main changes it in place
    fetched,       \* instance id of this run's GetInstanceRequest, if any
    foreign        \* keys another client wrote between this run's list and update calls

vars == <<params, remote, listing, op, extWrites, run, pc, instance,
          operation, status, request, polled, calls, sleeps, polls, result, previous, lookup,
          fetched, foreign>>

remoteVars == <<remote, listing, op, extWrites>>

\* ------------------------------------------------------- values and dicts
NoExc == [type |-> "none", text |-> "", code |-> 0, message |-> ""]

\* an exception raised by a remote call, as to_native(e) renders it
Exc(text) == [type |-> "Exception", text |-> text, code |-> 0, message |-> ""]

\* OperationError("unknown operation error code %r. Error was: %s" % (code, message))
OperationError(code, message) ==
    [type |-> "OperationError", text |-> "unknown operation error code",
     code |-> code, message |-> message]

\* a msg string: its fixed text and the error it renders
Msg(text, e) == [text |-> text, error |-> e]

NoResult == [kind |-> "none", changed |-> FALSE, msg |-> Msg("", NoExc),
             keys |-> {}, instance_labels |-> EmptyDict]

\* module.fail_json(msg=...)
FailJson(msg) == [kind |-> "fail", changed |-> FALSE, msg |-> msg,
                  keys |-> {"msg"}, instance_labels |-> EmptyDict]

\* variant of ExitJson: the report without labels goes out through fail_json
ExitJsonFailed(changed, msg) == FailJson(msg)

\* module.exit_json(changed=..., msg=...)
ExitJson(changed, msg) == [kind |-> "exit", changed |-> changed, msg |-> msg,
                           keys |-> {"changed", "msg"}, instance_labels |-> EmptyDict]

\* variant of ExitJsonLabels: every report with labels says changed=True
ExitJsonLabelsChanged(changed, msg, labels) ==
    [kind |-> "exit", changed |-> TRUE, msg |-> msg,
     keys |-> {"changed", "msg", "instance_labels"}, instance_labels |-> labels]

\* module.exit_json(changed=..., msg=..., instance_labels=...)
ExitJsonLabels(changed, msg, labels) ==
    [kind |-> "exit", changed |-> changed, msg |-> msg,
     keys |-> {"changed", "msg", "instance_labels"}, instance_labels |-> labels]

NoRequest == [sent |-> FALSE, instance_id |-> "", update_mask |-> {}, labels |-> EmptyDict]
NoOperation == [id |-> 0, metadata |-> [instance_id |-> ""]]
NoError == [code |-> 0, message |-> ""]
StallError == [code |-> 13, message |-> "denied"]   \* error field of a status that is not done
NoStatus == [keys |-> {}, done |-> FALSE, error |-> NoError]
NoOp == [state |-> "none", id |-> 0, instance_id |-> "", labels |-> EmptyDict,
         error |-> NoError]

\* entry of the log of remote calls
Call(name, raised) == [call |-> name, raised |-> raised]

\* ----------------------------------------------------- the pure functions
\* variant of Singleton: the first of one or more matches is the instance
FirstMatch(instances) == IF Len(instances) >= 1 THEN instances[1] ELSE EmptyDict

\* _find: accept only a list response with exactly one instance
Singleton(instances) == IF Len(instances) = 1 THEN instances[1] ELSE EmptyDict

\* main, present: all(key in labels and labels[key] == value for key, value in desired)
AllPresent(instance_labels, labels) ==
    \A key \in DOMAIN labels :
        key \in DOMAIN instance_labels /\ instance_labels[key] = labels[key]

\* variant of AnyPresent: all() in the place of any()
EveryPresent(instance_labels, labels) ==
    \A key \in DOMAIN labels : key \in DOMAIN instance_labels

\* main, absent: any(key in labels for key in desired)
AnyPresent(instance_labels, labels) ==
    \E key \in DOMAIN labels : key \in DOMAIN instance_labels

\* variant of NoneKeys: the None check is left out
NoneKeysUnchecked(labels) == {}

\* _update: keys of module.params["labels"] whose value is None
NoneKeys(labels) == {key \in DOMAIN labels : labels[key] = None}

\* variant of Merge: only the desired labels are sent, as for a partial patch
MergeDesiredOnly(instance_labels, labels) == labels

\* variant of Merge: on a key present in both, the current value is kept
MergeLeftBiased(instance_labels, labels) ==
    [key \in DOMAIN instance_labels \cup DOMAIN labels |->
        IF key \in DOMAIN instance_labels THEN instance_labels[key] ELSE labels[key]]

\* _update: for key, value in desired: instance_labels[key] = value
Merge(instance_labels, labels) ==
    [key \in DOMAIN instance_labels \cup DOMAIN labels |->
        IF key \in DOMAIN labels THEN labels[key] ELSE instance_labels[key]]

\* variant of Remove: a key is deleted only when its value equals the desired one
RemoveEqual(instance_labels, labels) ==
    [key \in {k \in DOMAIN instance_labels :
                 ~(k \in DOMAIN labels /\ labels[k] = instance_labels[k])} |->
        instance_labels[key]]

\* _delete: for key in desired: if key in instance_labels: del instance_labels[key]
Remove(instance_labels, labels) ==
    [key \in DOMAIN instance_labels \ DOMAIN labels |-> instance_labels[key]]

\* variant of Done: an operation that is done with an error counts as not done
DoneWithoutError(st) == "done" \in st.keys /\ st.done /\ "error" \notin st.keys

\* variant of Done: a status that carries an error field ends the loop too
DoneOrError(st) == ("done" \in st.keys /\ st.done) \/ "error" \in st.keys

\* _wait: "done" in operation and operation["done"]
Done(st) == "done" \in st.keys /\ st.done

\* variant of HasError: the error field of a done operation is not inspected
HasErrorIgnored(st) == FALSE

\* _wait: "error" in operation
HasError(st) == "error" \in st.keys

\* GetInstanceRequest(instance_id=instance_id, view="FULL")
GetInstanceRequest(instance_id) == [instance_id |-> instance_id, view |-> "FULL"]

\* variant of GetOperationRequest: the request names the operation before this one
GetOperationRequestStale(operation_id) == [operation_id |-> operation_id - 1]

\* GetOperationRequest(operation_id=operation_id)
GetOperationRequest(operation_id) == [operation_id |-> operation_id]

\* UpdateInstanceRequest(instance_id, update_mask=FieldMask(paths=["labels"]), labels)
UpdateInstanceRequest(instance_id, labels) ==
    [sent |-> TRUE, instance_id |-> instance_id, update_mask |-> {"labels"},
     labels |-> labels]

\* --------------------------------------------------------- initial state
Init ==
    /\ params \in [state : States, labels : LabelMaps(Vals \cup {None})]
    /\ \E m \in LabelMaps(Vals) : remote = [i \in {"i1", "i2"} |-> IF i = "i1" THEN m ELSE EmptyDict]
    /\ listing \in {SubSeq(InstanceIds, 1, n) : n \in 0..2}
    /\ op = NoOp
    /\ extWrites = 0
    /\ run = 1
    /\ pc = "find"
    /\ instance = EmptyDict
    /\ operation = NoOperation
    /\ status = NoStatus
    /\ request = NoRequest
    /\ polled = 0
    /\ calls = <<>>
    /\ sleeps = 0
    /\ polls = 0
    /\ result = NoResult
    /\ previous = NoResult
    /\ lookup = EmptyDict
    /\ fetched = ""
    /\ foreign = {}

\* ------------------------------------------------------------ the remote
\* message_to_dict of a list response: a dict whose "instances" entry is the
\* list of the instances, present also when the list is empty; each instance
\* is a dict with its id and its label map, present also when the map is empty
message_to_dict(instances) == [instances |-> instances]

\* service.List(request): the instances matching the name filter, as dicts
ListResponse ==
    message_to_dict([i \in 1..Len(listing) |->
                        [id |-> listing[i], labels |-> remote[listing[i]]]])

\* service.Get(GetOperationRequest(operation_id)): the dicts the remote can
\* answer with.  A running operation is reported without done, or with
\* done=false, and with or without an error field; a finished one with
\* done=true and, when it failed, its error.
OperationStatuses(operation_id) ==
    IF op.state = "none" \/ op.id # operation_id THEN {}
    ELSE IF op.state = "running" THEN
        {[keys |-> ks, done |-> FALSE, error |-> NoError] : ks \in {{}, {"done"}}}
        \cup {[keys |-> ks \cup {"error"}, done |-> FALSE, error |-> StallError] :
                    ks \in {{}, {"done"}}}
    ELSE IF op.state = "done" THEN
        {[keys |-> {"done"}, done |-> TRUE, error |-> NoError]}
    ELSE
        {[keys |-> {"done", "error"}, done |-> TRUE, error |-> op.error]}

\* the remote finishes the operation and applies the label map it was sent
RemoteComplete ==
    /\ op.state = "running"
    /\ op' = [op EXCEPT !.state = "done"]
    /\ remote' = [remote EXCEPT ![op.instance_id] = op.labels]
    /\ UNCHANGED <<params, listing, extWrites, run, pc, instance, operation,
                   status, request, polled, calls, sleeps, polls, result, previous, lookup, fetched, foreign>>

\* the remote finishes the operation with an error and applies nothing
RemoteFail ==
    /\ op.state = "running"
    /\ \E c \in ErrCodes, m \in ErrMessages :
           op' = [op EXCEPT !.state = "error", !.error = [code |-> c, message |-> m]]
    /\ UNCHANGED <<params, remote, listing, extWrites, run, pc, instance,
                   operation, status, request, polled, calls, sleeps, polls, result,
                   previous, lookup, fetched, foreign>>

\* another client sets or removes one label of the instance
ExternalWrite ==
    /\ extWrites < MaxExtWrites
    /\ extWrites' = extWrites + 1
    /\ \E k \in Keys :
          /\ \/ \E v \in Vals :
                   /\ ~(k \in DOMAIN remote["i1"] /\ remote["i1"][k] = v)
                   /\ remote' = [remote EXCEPT !["i1"] =
                                    [x \in DOMAIN remote["i1"] \cup {k} |->
                                        IF x = k THEN v ELSE remote["i1"][x]]]
             \/ /\ k \in DOMAIN remote["i1"]
                /\ remote' = [remote EXCEPT !["i1"] =
                                    [x \in DOMAIN remote["i1"] \ {k} |-> remote["i1"][x]]]
          /\ foreign' = IF pc \in {"match", "update", "delete"}
                        THEN foreign \cup {k} ELSE foreign
    /\ UNCHANGED <<params, listing, op, run, pc, instance, operation, status,
                   request, polled, calls, sleeps, polls, result, previous, lookup,
                   fetched>>

\* ---------------------------------------------------------------- the run
\* _find: list the instances by name; exactly one match is the instance
Find ==
    /\ pc = "find"
    /\ \/ /\ instance' = Singleton(ListResponse.instances)
          /\ calls' = Append(calls, Call("List", FALSE))
          /\ pc' = "match"
          /\ UNCHANGED result
       \/ \E e \in Errors :
          /\ calls' = Append(calls, Call("List", TRUE))
          /\ result' = FailJson(Msg("unknown error find instance", Exc(e)))
          /\ pc' = "exited"
          /\ UNCHANGED instance
    /\ lookup' = instance'
    /\ UNCHANGED <<params, remoteVars, run, operation, status, request, polled,
                   sleeps, polls, previous, fetched, foreign>>

\* main, case "present", up to the call of _update
MainPresent ==
    /\ pc = "match"
    /\ params.state = "present"
    /\ IF instance = EmptyDict
       THEN /\ result' = ExitJson(FALSE, Msg("instance not exist", NoExc))
            /\ pc' = "exited"
       ELSE IF AllPresent(instance.labels, params.labels)
       THEN /\ result' = ExitJsonLabels(FALSE,
                            Msg("the specified labels for instance already exist", NoExc),
                            instance.labels)
            /\ pc' = "exited"
       ELSE /\ pc' = "update"
            /\ UNCHANGED result
    /\ UNCHANGED <<params, remoteVars, run, instance, operation, status, request,
                   polled, calls, sleeps, polls, previous, lookup, fetched, foreign>>

\* main, case "absent", up to the call of _delete
MainAbsent ==
    /\ pc = "match"
    /\ params.state = "absent"
    /\ IF instance = EmptyDict
       THEN /\ result' = ExitJson(FALSE, Msg("instance not exist", NoExc))
            /\ pc' = "exited"
       ELSE IF AnyPresent(instance.labels, params.labels)
       THEN /\ pc' = "delete"
            /\ UNCHANGED result
       ELSE /\ result' = ExitJsonLabels(FALSE,
                            Msg("the specified labels for instance already absent", NoExc),
                            instance.labels)
            /\ pc' = "exited"
    /\ UNCHANGED <<params, remoteVars, run, instance, operation, status, request,
                   polled, calls, sleeps, polls, previous, lookup, fetched, foreign>>

\* variant of ServiceUpdate: an exception of the update call is swallowed and
\* the call is issued again
ServiceUpdateRetry(req) ==
    /\ \/ /\ calls' = Append(calls, Call("Update", FALSE))
          /\ request' = req
          /\ op' = [state |-> "running", id |-> run, instance_id |-> req.instance_id,
                    labels |-> req.labels, error |-> NoError]
          /\ operation' = [id |-> run, metadata |-> [instance_id |-> req.instance_id]]
          /\ pc' = "wait_sleep"
          /\ UNCHANGED result
       \/ /\ Len(calls) < 4
          /\ calls' = Append(calls, Call("Update", TRUE))
          /\ request' = request
          /\ pc' = pc
          /\ UNCHANGED <<result, op, operation>>

\* service.Update(request) in _update and _delete: the remote creates an
\* operation holding the label map of the request, or the call raises.  The
\* operation gets a fresh id, the number of the run that created it.
ServiceUpdate(req) ==
    /\ request' = req
    /\ \/ /\ calls' = Append(calls, Call("Update", FALSE))
          /\ op' = [state |-> "running", id |-> run, instance_id |-> req.instance_id,
                    labels |-> req.labels, error |-> NoError]
          /\ operation' = [id |-> run, metadata |-> [instance_id |-> req.instance_id]]
          /\ pc' = "wait_sleep"
          /\ UNCHANGED result
       \/ \E e \in Errors :
          /\ calls' = Append(calls, Call("Update", TRUE))
          /\ result' = FailJson(Msg("unknown error update labels", Exc(e)))
          /\ pc' = "exited"
          /\ UNCHANGED <<op, operation>>

\* variant of Update: the desired labels are merged into the labels the
\* remote holds at the time of the update, not into the ones of the lookup
UpdateFromRemote ==
    /\ pc = "update"
    /\ IF NoneKeys(params.labels) # {}
       THEN /\ result' = FailJson(Msg("Value for key cannot be 'None'", NoExc))
            /\ pc' = "exited"
            /\ UNCHANGED <<instance, request, calls, op, operation>>
       ELSE LET instance_labels == Merge(remote[instance.id], params.labels)
            IN  /\ instance' = [instance EXCEPT !.labels = instance_labels]
                /\ ServiceUpdate(UpdateInstanceRequest(instance.id, instance_labels))
    /\ UNCHANGED <<params, remote, listing, extWrites, run, status, polled, sleeps,
                   polls, previous, lookup, fetched, foreign>>

\* _update: reject None values, merge the desired labels into
\* instance["labels"] in place, send the whole map
Update ==
    /\ pc = "update"
    /\ IF NoneKeys(params.labels) # {}
       THEN /\ result' = FailJson(Msg("Value for key cannot be 'None'", NoExc))
            /\ pc' = "exited"
            /\ UNCHANGED <<instance, request, calls, op, operation>>
       ELSE LET instance_labels == Merge(instance.labels, params.labels)
            IN  /\ instance' = [instance EXCEPT !.labels = instance_labels]
                /\ ServiceUpdate(UpdateInstanceRequest(instance.id, instance_labels))
    /\ UNCHANGED <<params, remote, listing, extWrites, run, status, polled, sleeps,
                   polls, previous, lookup, fetched, foreign>>

\* _delete: delete the desired keys from instance["labels"] in place, send
\* the whole map
Delete ==
    /\ pc = "delete"
    /\ LET instance_labels == Remove(instance.labels, params.labels)
       IN  /\ instance' = [instance EXCEPT !.labels = instance_labels]
           /\ ServiceUpdate(UpdateInstanceRequest(instance.id, instance_labels))
    /\ UNCHANGED <<params, remote, listing, extWrites, run, status, polled, sleeps,
                   polls, previous, lookup, fetched, foreign>>

\* number of status fetches in the log of this run
Fetches == Cardinality({i \in 1..Len(calls) : calls[i].call = "GetOperation"})

\* _wait: sleep(1) at the top of the loop.  The loop has no limit; the log
\* keeps MaxPolls rounds that found the operation not done, and every further
\* such round repeats the last one.
WaitSleep ==
    /\ pc = "wait_sleep"
    /\ sleeps' = IF sleeps = Fetches THEN sleeps + 1 ELSE sleeps
    /\ pc' = "wait_get"
    /\ UNCHANGED <<params, remoteVars, run, instance, operation, status, request,
                   polled, calls, polls, result, previous, lookup, fetched, foreign>>

\* _wait: fetch the operation; leave the loop when it is done, fail when it
\* is done with an error or when the fetch raises
WaitGet ==
    /\ pc = "wait_get"
    /\ polled' = GetOperationRequest(operation.id).operation_id
    /\ \/ \E st \in OperationStatuses(polled') :
          /\ status' = st
          /\ IF ~Done(st) /\ polls = MaxPolls
             THEN UNCHANGED <<polls, calls>>
             ELSE /\ polls' = IF Done(st) THEN polls ELSE polls + 1
                  /\ calls' = Append(calls, Call("GetOperation", FALSE))
          /\ IF Done(st)
             THEN IF HasError(st)
                  THEN /\ result' = FailJson(Msg("unknown error operation snapshot",
                                        OperationError(st.error.code, st.error.message)))
                       /\ pc' = "exited"
                  ELSE /\ pc' = "get"
                       /\ UNCHANGED result
             ELSE /\ pc' = "wait_sleep"
                  /\ UNCHANGED result
       \/ \E e \in Errors :
          /\ calls' = Append(calls, Call("GetOperation", TRUE))
          /\ result' = FailJson(Msg("unknown error operation snapshot", Exc(e)))
          /\ pc' = "exited"
          /\ UNCHANGED <<status, polls>>
    /\ UNCHANGED <<params, remoteVars, run, instance, operation, request, sleeps,
                   previous, lookup, fetched, foreign>>

\* variant of Get: the report carries the label map computed locally instead
\* of the one the get call returned
GetReportsLocal ==
    /\ pc = "get"
    /\ fetched' = GetInstanceRequest(operation.metadata.instance_id).instance_id
    /\ \/ /\ calls' = Append(calls, Call("Get", FALSE))
          /\ result' = ExitJsonLabels(TRUE, Msg("instance labels updated", NoExc),
                                      instance.labels)
       \/ \E e \in Errors :
          /\ calls' = Append(calls, Call("Get", TRUE))
          /\ result' = FailJson(Msg("unknown error getting instance by id", Exc(e)))
    /\ pc' = "exited"
    /\ UNCHANGED <<params, remoteVars, run, instance, operation, status, request,
                   polled, sleeps, polls, previous, lookup, foreign>>

\* _get by operation["metadata"]["instance_id"], then
\* exit_json(changed=True, instance_labels=get_instance["labels"])
Get ==
    /\ pc = "get"
    /\ fetched' = GetInstanceRequest(operation.metadata.instance_id).instance_id
    /\ \/ LET get_instance == [id |-> fetched', labels |-> remote[fetched']]
          IN  /\ calls' = Append(calls, Call("Get", FALSE))
              /\ result' = ExitJsonLabels(TRUE, Msg("instance labels updated", NoExc),
                                          get_instance.labels)
       \/ \E e \in Errors :
          /\ calls' = Append(calls, Call("Get", TRUE))
          /\ result' = FailJson(Msg("unknown error getting instance by id", Exc(e)))
    /\ pc' = "exited"
    /\ UNCHANGED <<params, remoteVars, run, instance, operation, status, request,
                   polled, sleeps, polls, previous, lookup, foreign>>

\* the module is run again with the same parameters: a fresh process
NextRun ==
    /\ pc = "exited"
    /\ run < MaxRuns
    /\ run' = run + 1
    /\ previous' = [result EXCEPT !.msg = Msg("", NoExc)]
    /\ pc' = "find"
    /\ instance' = EmptyDict
    /\ operation' = NoOperation
    /\ status' = NoStatus
    /\ request' = NoRequest
    /\ polled' = 0
    /\ calls' = <<>>
    /\ sleeps' = 0
    /\ polls' = 0
    /\ result' = NoResult
    /\ lookup' = EmptyDict
    /\ fetched' = ""
    /\ foreign' = {}
    /\ UNCHANGED <<params, remoteVars>>

Next ==
    \/ Find
    \/ MainPresent
    \/ MainAbsent
    \/ Update
    \/ Delete
    \/ WaitSleep
    \/ WaitGet
    \/ Get
    \/ NextRun
    \/ RemoteComplete
    \/ RemoteFail
    \/ ExternalWrite

Spec == Init /\ [][Next]_vars

\* The initial states for the runs whose poll loop is followed to its end: one
\* instance matches, one label is desired, with a string or with None; what
\* the poll loop does depends on no label.
LiveInit ==
    /\ Init
    /\ listing = <<"i1">>
    /\ params.labels \in [{"team"} -> {"x", None}]
    /\ remote["i1"] \in LabelMaps({"prod"})

\* The process of a run keeps running: the steps of _wait and the call of
\* _get that follows it are taken when they can be.  The remote finishes
\* every operation, with or without an error.
FairSpec ==
    /\ LiveInit
    /\ [][Next]_vars
    /\ WF_vars(WaitSleep)
    /\ WF_vars(WaitGet)
    /\ WF_vars(Get)
    /\ WF_vars(RemoteComplete \/ RemoteFail)

TypeOK ==
    /\ pc \in {"find", "match", "update", "delete", "wait_sleep", "wait_get", "get",
               "exited"}
    /\ run \in 1..MaxRuns
    /\ result.kind \in {"none", "exit", "fail"}
    /\ (pc = "exited") = (result.kind # "none")

\* ------------------------------------------------------------- properties
\* the list call of this run returned
ListOk == Len(calls) >= 1 /\ calls[1] = Call("List", FALSE)

\* number of update calls this run has issued
UpdateCount == Cardinality({i \in 1..Len(calls) : calls[i].call = "Update"})

\* the desired labels hold a None value
HasNull == \E k \in DOMAIN params.labels : params.labels[k] = None

\* the payload of the None-value failure
InvalidInput == result.kind = "fail" /\ result.msg.text = "Value for key cannot be 'None'"

\* C1: a present run on a found instance with no None value reports
\* changed=false with the labels of the lookup and sends no update when every
\* desired key is there with an equal value; otherwise its one update carries
\* the lookup's labels united with the desired ones, the desired value winning
\* on a shared key and every other current key keeping its value.
C1_PresentDecision ==
    (/\ params.state = "present"
     /\ ListOk
     /\ lookup # EmptyDict
     /\ ~HasNull
     /\ pc # "match")
    => IF \A k \in DOMAIN params.labels :
              k \in DOMAIN lookup.labels /\ lookup.labels[k] = params.labels[k]
       THEN /\ pc = "exited"
            /\ result.kind = "exit"
            /\ ~result.changed
            /\ "instance_labels" \in result.keys
            /\ result.instance_labels = lookup.labels
            /\ UpdateCount = 0
            /\ ~request.sent
       ELSE IF pc = "update"
       THEN UpdateCount = 0 /\ ~request.sent
       ELSE /\ UpdateCount = 1
            /\ request.sent
            /\ request.instance_id = lookup.id
            /\ DOMAIN request.labels = DOMAIN lookup.labels \cup DOMAIN params.labels
            /\ \A k \in DOMAIN params.labels : request.labels[k] = params.labels[k]
            /\ \A k \in DOMAIN lookup.labels \ DOMAIN params.labels :
                   request.labels[k] = lookup.labels[k]

\* a present update was sent that overwrites one current label and keeps another
C1_Witness ==
    /\ params.state = "present"
    /\ request.sent
    /\ lookup # EmptyDict
    /\ \E k \in DOMAIN params.labels \cap DOMAIN lookup.labels :
           lookup.labels[k] # params.labels[k]
    /\ DOMAIN lookup.labels \ DOMAIN params.labels # {}

\* C2: an absent run on a found instance reports changed=false with the labels
\* of the lookup and sends no update when no desired key is among them;
\* otherwise its update carries the lookup's labels without the desired keys.
\* Only the keys of the desired labels enter: the desired values, None
\* included, range freely and appear nowhere in the outcome.
C2_AbsentDecision ==
    (/\ params.state = "absent"
     /\ ListOk
     /\ lookup # EmptyDict
     /\ pc # "match")
    => IF DOMAIN params.labels \cap DOMAIN lookup.labels = {}
       THEN /\ pc = "exited"
            /\ result.kind = "exit"
            /\ ~result.changed
            /\ "instance_labels" \in result.keys
            /\ result.instance_labels = lookup.labels
            /\ UpdateCount = 0
            /\ ~request.sent
       ELSE IF pc = "delete"
       THEN UpdateCount = 0 /\ ~request.sent
       ELSE /\ UpdateCount = 1
            /\ request.sent
            /\ request.instance_id = lookup.id
            /\ DOMAIN request.labels = DOMAIN lookup.labels \ DOMAIN params.labels
            /\ \A k \in DOMAIN request.labels : request.labels[k] = lookup.labels[k]

\* an absent update was sent for a key whose desired value differs from the
\* current one (here None), while another current label is kept
C2_Witness ==
    /\ params.state = "absent"
    /\ request.sent
    /\ lookup # EmptyDict
    /\ \E k \in DOMAIN params.labels \cap DOMAIN lookup.labels : params.labels[k] = None
    /\ DOMAIN request.labels # {}

\* C3: when the lookup returns and finds no instance, the run has issued the
\* list call and nothing else, and it ends with changed=false and no labels
\* field, for both states and every desired label map; it never fails.
C3_NoSuchInstance ==
    (ListOk /\ lookup = EmptyDict)
    => /\ calls = <<Call("List", FALSE)>>
       /\ ~request.sent
       /\ sleeps = 0
       /\ pc \in {"match", "exited"}
       /\ pc = "exited" =>
            /\ result.kind = "exit"
            /\ ~result.changed
            /\ result.keys = {"changed", "msg"}

\* a present run with a None value ended on an instance that was not found
C3_Witness ==
    /\ ListOk
    /\ lookup = EmptyDict
    /\ pc = "exited"
    /\ params.state = "present"
    /\ HasNull

\* C4: of two consecutive present runs with the same desired labels, no other
\* writer and no failing call, where the first reports changed=true, the
\* second reports changed=false and the same label map as the first.
C4_PresentIdempotent ==
    (/\ params.state = "present"
     /\ run > 1
     /\ extWrites = 0
     /\ previous.kind = "exit"
     /\ previous.changed
     /\ pc = "exited"
     /\ result.kind = "exit")
    => /\ ~result.changed
       /\ "instance_labels" \in result.keys
       /\ "instance_labels" \in previous.keys
       /\ result.instance_labels = previous.instance_labels

\* the second of two such runs has ended, the first having overwritten a label
C4_Witness ==
    /\ params.state = "present"
    /\ run = 2
    /\ extWrites = 0
    /\ previous.kind = "exit"
    /\ previous.changed
    /\ pc = "exited"
    /\ result.kind = "exit"
    /\ \E k \in DOMAIN params.labels : result.instance_labels[k] = params.labels[k]

\* C5: a present run with a None value fails with the None-value message
\* before any remote call is made: such a run never has a call in its log.
C5_NullRejectedBeforeAnyCall ==
    (params.state = "present" /\ HasNull)
    => /\ calls = <<>>
       /\ pc = "exited" => InvalidInput

\* C6: every present run with a None value whose lookup returned ends in the
\* None-value failure, whatever the lookup found.
C6_NullAlwaysRejected ==
    (params.state = "present" /\ HasNull /\ ListOk /\ pc = "exited")
    => InvalidInput

\* C7: when a status fetch returns the operation done with an error, the run
\* has failed with a message carrying that error's code and message, has not
\* issued the get-instance call and has not reported changed=true.
C7_OperationErrorFatal ==
    ("done" \in status.keys /\ status.done /\ "error" \in status.keys)
    => /\ pc = "exited"
       /\ result.kind = "fail"
       /\ ~result.changed
       /\ result.msg.error.type = "OperationError"
       /\ result.msg.error.code = status.error.code
       /\ result.msg.error.message = status.error.message
       /\ status.error = op.error
       /\ \A i \in 1..Len(calls) : calls[i].call # "Get"
       /\ calls[Len(calls)] = Call("GetOperation", FALSE)

\* the update call returned, a fetch found the operation still running, and a
\* later fetch returned it done with an error
C7_Witness ==
    /\ "done" \in status.keys /\ status.done /\ "error" \in status.keys
    /\ UpdateCount = 1
    /\ Len(calls) >= 4
    /\ pc = "exited"

\* C8: a call that raised, or a fetch that returned the operation done with an
\* error, is the last call of its run, and the run has ended with a failure.
C8_ErrorsFatal ==
    /\ \A i \in 1..Len(calls) :
          calls[i].raised =>
             /\ i = Len(calls)
             /\ pc = "exited"
             /\ result.kind = "fail"
    /\ ("done" \in status.keys /\ status.done /\ "error" \in status.keys) =>
             /\ calls[Len(calls)].call = "GetOperation"
             /\ pc = "exited"
             /\ result.kind = "fail"
    /\ result.kind = "fail" => UpdateCount <= 1

\* the update call raised after the list call had returned
C8_Witness ==
    /\ Len(calls) = 2
    /\ calls[2] = Call("Update", TRUE)
    /\ pc = "exited"

\* C9: the instance counts as found exactly when the list call returned one
\* instance; with none or with two the run ends as for not found:
\* changed=false, no labels field, no update call, no failure.
C9_SingletonLookup ==
    ListOk
    => /\ (Len(listing) = 1) = (lookup # EmptyDict)
       /\ Len(listing) = 1 => lookup = [id |-> listing[1], labels |-> lookup.labels]
       /\ Len(listing) # 1 =>
            /\ calls = <<Call("List", FALSE)>>
            /\ ~request.sent
            /\ pc \in {"match", "exited"}
            /\ pc = "exited" =>
                 /\ result.kind = "exit"
                 /\ ~result.changed
                 /\ result.keys = {"changed", "msg"}

\* a run has ended after its list call returned two instances
C9_Witness ==
    /\ ListOk
    /\ Len(listing) = 2
    /\ pc = "exited"

\* C10: every value of the label map a present run sends in its update call
\* is a string, never None.
C10_NoNullSent ==
    (params.state = "present" /\ request.sent)
    => \A k \in DOMAIN request.labels : request.labels[k] \in Vals

\* a present run has sent an update that carries a desired label
C10_Witness ==
    /\ params.state = "present"
    /\ request.sent
    /\ UpdateCount = 1
    /\ DOMAIN params.labels # {}

\* C11: a run reports changed=true only in the step that follows a done status
\* without error, by a get-instance call that is addressed to the instance id
\* of the operation's metadata and returns; its calls are then, in order, the
\* list call, one update, one or more status fetches and one get-instance
\* call, and the labels of the report are the ones that call returned.
C11_MutatingOrder ==
    [][(result'.kind = "exit" /\ result'.changed /\ result' # result) =>
          /\ pc = "get"
          /\ "done" \in status.keys /\ status.done /\ "error" \notin status.keys
          /\ Len(calls') >= 4
          /\ calls'[1] = Call("List", FALSE)
          /\ calls'[2] = Call("Update", FALSE)
          /\ \A i \in 3..(Len(calls') - 1) : calls'[i] = Call("GetOperation", FALSE)
          /\ calls'[Len(calls')] = Call("Get", FALSE)
          /\ calls' = Append(calls, Call("Get", FALSE))
          /\ fetched' = operation.metadata.instance_id
          /\ fetched' = lookup.id
          /\ "instance_labels" \in result'.keys
          /\ result'.instance_labels = remote[operation.metadata.instance_id]]_vars

\* a run has reported changed=true with labels that differ from the map it
\* computed and sent
C11_Witness ==
    /\ pc = "exited"
    /\ result.kind = "exit"
    /\ result.changed
    /\ request.sent
    /\ result.instance_labels # request.labels
    /\ Fetches >= 2

\* C13: the poll loop is left only by a fetch that raises or returns a status
\* with done=true; after a status that is not done, with or without an error
\* field, the run goes back to sleep and has no payload, however many rounds
\* came before.
C13_LoopLeftOnlyByDone ==
    [][/\ (pc = "wait_sleep" /\ pc' # pc) => (pc' = "wait_get" /\ result' = result)
       /\ (pc = "wait_get" /\ pc' # pc) =>
             LET raised == calls' = Append(calls, Call("GetOperation", TRUE))
                 done == "done" \in status'.keys /\ status'.done
             IN  /\ (~raised /\ ~done) => (pc' = "wait_sleep" /\ result' = result)
                 /\ pc' # "wait_sleep" => (raised \/ done)
                 /\ pc' = "exited" => result'.kind = "fail"]_vars

\* the run is back at the sleep after a round beyond the ones its log keeps,
\* in which the status had done=false and an error field
C13_Witness ==
    /\ pc = "wait_sleep"
    /\ polls = MaxPolls
    /\ sleeps = Fetches + 1
    /\ status.keys = {"done", "error"}
    /\ ~status.done
    /\ result.kind = "none"

\* C14: a run issues at most one update call; its status fetches follow that
\* call without another call in between and all name the operation id the
\* update call returned, which is the id of the operation this run created.
C14_OneUpdateOnePoller ==
    /\ UpdateCount <= 1
    /\ \A i \in 1..Len(calls) :
          /\ calls[i].call = "GetOperation" =>
                /\ i >= 3
                /\ calls[2] = Call("Update", FALSE)
                /\ \A j \in 3..i : calls[j].call = "GetOperation"
          /\ calls[i].call = "Get" => i = Len(calls)
    /\ pc \in {"wait_sleep", "wait_get", "get"} =>
          /\ UpdateCount = 1
          /\ operation.id = run
          /\ op.id = run
    /\ polled # 0 =>
          /\ polled = operation.id
          /\ polled = op.id
          /\ polled = run
          /\ calls[2] = Call("Update", FALSE)
    /\ Fetches >= 1 => polled # 0

\* the second run polls the operation it created, for the second time
C14_Witness ==
    /\ run = 2
    /\ polled = 2
    /\ Fetches >= 2

\* C15: a write by another client between the list call and the update call
\* goes unnoticed.  The run issues its update right after the list call, with
\* no read in between; on every key outside the desired labels the map it
\* sends is the one of the lookup; it fails only if a call raises or the
\* operation ends with an error, and otherwise reports changed=true.  When
\* that write was the only one, a key it added outside the desired labels is
\* gone from the instance and from the reported labels.
C15_ExternalWriteUndetected ==
    (foreign # {} /\ request.sent) =>
       /\ calls[1] = Call("List", FALSE)
       /\ calls[2].call = "Update"
       /\ \A k \in Keys \ DOMAIN params.labels :
             /\ (k \in DOMAIN request.labels) = (k \in DOMAIN lookup.labels)
             /\ k \in DOMAIN request.labels => request.labels[k] = lookup.labels[k]
       /\ (pc = "exited" /\ result.kind = "fail") =>
             \/ calls[Len(calls)].raised
             \/ ("done" \in status.keys /\ status.done /\ "error" \in status.keys)
       /\ (pc = "exited" /\ result.kind = "exit") =>
             /\ result.changed
             /\ extWrites = 1 =>
                   \A k \in foreign \ (DOMAIN params.labels \cup DOMAIN lookup.labels) :
                       /\ k \notin DOMAIN result.instance_labels
                       /\ k \notin DOMAIN remote[lookup.id]

\* a run has reported changed=true after its update erased a label that
\* another client had added, between the list and the update call, on a key
\* outside the desired labels
C15_Witness ==
    /\ pc = "exited"
    /\ result.kind = "exit"
    /\ result.changed
    /\ extWrites = 1
    /\ lookup # EmptyDict
    /\ \E k \in foreign :
          /\ k \notin DOMAIN params.labels
          /\ k \notin DOMAIN lookup.labels
          /\ k \notin DOMAIN result.instance_labels

\* C16: a run that has ended with changed=false, with the None-value failure
\* or with the failure of the list call has issued no update call and has
\* created no operation; a run that has reported changed=true has issued
\* exactly one.  A run without an update call has created no operation.
C16_NoUpdateNoChange ==
    /\ UpdateCount = 0 => (~request.sent /\ op.id # run)
    /\ pc = "exited" =>
          /\ (result.kind = "exit" /\ ~result.changed) => UpdateCount = 0
          /\ InvalidInput => UpdateCount = 0
          /\ (result.kind = "fail" /\ result.msg.text = "unknown error find instance") =>
                UpdateCount = 0
          /\ (result.kind = "exit" /\ result.changed) =>
                /\ UpdateCount = 1
                /\ request.sent
                /\ calls[2] = Call("Update", FALSE)

\* a present run on a found instance has ended with the None-value failure
C16_Witness ==
    /\ pc = "exited"
    /\ InvalidInput
    /\ lookup # EmptyDict
    /\ params.state = "present"

\* C17: with no write by another client, a run on a found instance that has
\* ended with a report carries labels in which, for present, every desired
\* key has the desired value and, for absent, no desired key occurs; in both
\* every label of the lookup outside the desired keys is there unchanged.
C17_Convergence ==
    (pc = "exited" /\ result.kind = "exit" /\ lookup # EmptyDict /\ extWrites = 0) =>
       /\ "instance_labels" \in result.keys
       /\ params.state = "present" =>
             \A k \in DOMAIN params.labels :
                 /\ k \in DOMAIN result.instance_labels
                 /\ result.instance_labels[k] = params.labels[k]
       /\ params.state = "absent" =>
             DOMAIN params.labels \cap DOMAIN result.instance_labels = {}
       /\ \A k \in DOMAIN lookup.labels \ DOMAIN params.labels :
             /\ k \in DOMAIN result.instance_labels
             /\ result.instance_labels[k] = lookup.labels[k]

\* an absent run with both keys desired has removed the one label the
\* instance had
C17_Witness ==
    /\ pc = "exited"
    /\ result.kind = "exit"
    /\ result.changed
    /\ extWrites = 0
    /\ params.state = "absent"
    /\ lookup # EmptyDict
    /\ DOMAIN params.labels = Keys
    /\ Cardinality(DOMAIN lookup.labels) = 1

\* C18: of two consecutive absent runs with the same desired labels, no other
\* writer and no failing call, where the first reports changed=true, the
\* second reports changed=false and the same label map as the first.
C18_AbsentIdempotent ==
    (/\ params.state = "absent"
     /\ run > 1
     /\ extWrites = 0
     /\ previous.kind = "exit"
     /\ previous.changed
     /\ pc = "exited"
     /\ result.kind = "exit")
    => /\ ~result.changed
       /\ "instance_labels" \in result.keys
       /\ "instance_labels" \in previous.keys
       /\ result.instance_labels = previous.instance_labels
       /\ DOMAIN result.instance_labels \cap DOMAIN params.labels = {}

\* the second of two such runs has ended, the first having removed a label
\* whose desired value differed from the current one
C18_Witness ==
    /\ params.state = "absent"
    /\ run = 2
    /\ extWrites = 0
    /\ previous.kind = "exit"
    /\ previous.changed
    /\ pc = "exited"
    /\ result.kind = "exit"
    /\ result.instance_labels # EmptyDict

\* C12: when the remote finishes every operation and the steps of the run are
\* scheduled fairly, a run that has entered the poll loop comes to its end;
\* if none of its calls raised, the end is the changed=true report, or the
\* failure that carries the error of the operation.  Every status fetch has
\* its own sleep before it, the first included.
C12_PollTerminates ==
    /\ (pc = "wait_sleep") ~> (pc = "exited")
    /\ [](/\ Fetches <= sleeps
          /\ sleeps <= Fetches + 1
          /\ pc = "wait_get" => sleeps = Fetches + 1
          /\ pc \in {"get", "exited"} => sleeps = Fetches
          /\ (pc = "exited" /\ UpdateCount = 1
                /\ \A i \in 1..Len(calls) : ~calls[i].raised) =>
                   \/ result.kind = "exit" /\ result.changed
                   \/ result.kind = "fail" /\ result.msg.error.type = "OperationError")

\* a run has ended with the error of its operation, after two fetches with a
\* sleep before each
C12_Witness ==
    /\ pc = "exited"
    /\ sleeps = 2
    /\ Fetches = 2
    /\ result.kind = "fail"
    /\ result.msg.error.type = "OperationError"
====
